---- MODULE Spec2Model ----
(***************************************************************************)
(* Model of the Analyser stage of mtriage (src/src/lib/common/analyser.py).*)
(*                                                                         *)
(* One run of Analyser.start_analysing is modelled: the pre phase, the     *)
(* read of the input elements, the main phase (analyse / __attempt_analyse *)
(* per element, serially or by parallel workers that share dest_q), the    *)
(* post phase and the write of the metadata record.                        *)
(*                                                                         *)
(* Strings that are paths are modelled as sequences of segments, a segment *)
(* being a sequence of name atoms: "selA/anB" is << <<"selA">>, <<"anB">> >>*)
(* and the concatenation "selA" + "selB" is the segment <<"selA","selB">>. *)
(***************************************************************************)
EXTENDS Integers, Sequences, FiniteSets, TLC

(* ---------------------------------------------------------------------- *)
(* Bounds of the model and constants of the program                       *)
(* ---------------------------------------------------------------------- *)

\* largest number of elements read_elements returns for elements_in
MaxElems == 2

\* analyser.py:143  self.__attempt_analyse(5, element)
MaxAttempts == 5

\* the stage name given to the constructor (self.name)
StageName == <<"anB">>

\* queries a configuration may name in elements_in
QSelA == << <<"selA">> >>
QSelB == << <<"selB">> >>

\* the values of config["elements_in"] explored (non-empty lists, __init__ 39-46)
ElementsInChoices == { <<QSelA>>, <<QSelA, QSelB>> }

\* element id of the aggregate element post_analyse may return
AggElement == 0

VARIABLES
    in_parallel,            \* self.in_parallel
    is_dev,                 \* self.is_dev()
    elements_in,            \* self.config["elements_in"]
    arg_module,             \* __init__ argument module
    arg_storage,            \* __init__ argument storage (its class)
    arg_config,             \* __init__ argument config
    phase,                  \* position of start_analysing
    abort,                  \* why start_analysing ended with an exception
    query,                  \* query[e]: element.query of input element e
    status,                 \* status[e]: position of element e in analyse
    attempts,               \* attempts[e]: argument of the running __attempt_analyse
    dest_q,                 \* self.dest_q (a shared cell when in_parallel)
    errored,                \* self.errored
    delete_local_on_write,  \* self.disk.delete_local_on_write
    stored,                 \* elements committed by write_element: <<dest, id>>
    metas,                  \* paths given to write_meta, in call order
    post_els,               \* elements handed to post_analyse
    post_writes,            \* write_element calls of __post_analyse: [dest, ok]
    exhausted,              \* history: elements that ran line 195 (self.errored = True)
    watched,                \* history: the input element whose calls are counted
    calls,                  \* history: analyse_element invocations for watched
    raised,                 \* history: of these, those that raised ElementShouldRetryError
    wcalls,                 \* history: write_element calls for watched in the main phase
    wfalse,                 \* history: of these, those that returned false
    wok,                    \* history: of these, those that returned true
    last                    \* history: outcome of the latest call made for watched

vars == << in_parallel, is_dev, elements_in, arg_module, arg_storage, arg_config, phase, abort, query, status,
           attempts, dest_q, errored, delete_local_on_write, stored, metas,
           post_els, post_writes, exhausted, watched, calls, raised, wcalls, wfalse, wok, last >>

args    == << arg_module, arg_storage, arg_config >>
config  == << in_parallel, is_dev, elements_in, args >>
counts  == << calls, raised, wcalls, wfalse, wok, last >>
history == << exhausted, watched, counts >>

Elems == DOMAIN query

(* ---------------------------------------------------------------------- *)
(* Storage port: query decomposition                                      *)
(* ---------------------------------------------------------------------- *)

\* Storage.read_query: (selector name, remainder)
read_query(q) == << Head(q), Tail(q) >>

\* variant: og_query[1], the remainder, in place of og_query[0]
DestQOfRemainder(q) == << read_query(q)[2], StageName >>

\* analyser.py:140-141  f"{og_query[0]}/{self.name}"
DestQ(q) == << read_query(q)[1], StageName >>

\* analyser.py:146-151  get_selector: the selector names of elements_in, concatenated
RECURSIVE SelConcat(_)
SelConcat(qs) ==
    IF qs = <<>> THEN <<>> ELSE read_query(Head(qs))[1] \o SelConcat(Tail(qs))

get_selector == SelConcat(elements_in)

\* analyser.py:88  f"{self.get_selector()}/{self.name}"
MetaPath == << get_selector, StageName >>

(* ---------------------------------------------------------------------- *)
(* Decisions of __attempt_analyse and start_analysing                     *)
(* ---------------------------------------------------------------------- *)

\* variant: ElementShouldSkipError caught by the retry clause
HandlerSkipRetried(outcome) ==
    CASE outcome = "skip"  -> "retry"
      [] outcome = "retry" -> "retry"
      [] outcome = "exc"   -> "exception"
      [] outcome = "none"  -> "return"
      [] OTHER             -> "continue"

\* analyser.py:185-201 the except clause that handles an outcome of the try body
Handler(outcome) ==
    CASE outcome = "skip"  -> "skip"
      [] outcome = "retry" -> "retry"
      [] outcome = "exc"   -> "exception"
      [] outcome = "none"  -> "return"
      [] OTHER             -> "continue"

\* variant: "if success" in place of "if not success"
WriteVerdictInverted(result) ==
    CASE result = "true"  -> "retry"
      [] result = "false" -> "return"
      [] OTHER            -> "exception"

\* analyser.py:182-183  if not success: raise ElementShouldRetryError
WriteVerdict(result) ==
    CASE result = "true"  -> "return"
      [] result = "false" -> "retry"
      [] OTHER            -> "exception"

\* variant: "attempts > 0" in place of "attempts > 1"
OnRetryErrorOffByOne(n) == IF n > 0 THEN "again" ELSE "exhausted"

\* analyser.py:189-195  retry with one attempt fewer, or give up and mark the run
OnRetryError(n) == IF n > 1 THEN "again" ELSE "exhausted"

\* variant: the exception is re-raised whatever the mode
OnExceptionAlwaysRaise(dev) == "raise"

\* variant: a swallowed exception marks the run as failed
OnExceptionMarksErrored(dev) == IF dev THEN "raise" ELSE "exhausted"

\* variant: the two modes exchanged
OnExceptionSwapped(dev) == IF dev THEN "swallow" ELSE "raise"

\* analyser.py:196-201  dev mode re-raises, production logs and skips the element
OnException(dev) == IF dev THEN "raise" ELSE "swallow"

\* the way one attempt of element e ends, from the handler that caught it
Verdict(h, n, dev) ==
    CASE h = "retry"     -> OnRetryError(n)
      [] h = "exception" -> OnException(dev)
      [] h = "skip"      -> "skipped"
      [] OTHER           -> "return"

\* variant: the record is written whatever the errored flag
AlwaysWriteMeta(err) == TRUE

\* variant: "if self.errored" in place of "if not self.errored"
WriteMetaWhenErrored(err) == err

\* analyser.py:86  if not self.errored: write_meta(...)
ShouldWriteMeta(err) == ~err

(* ---------------------------------------------------------------------- *)
(* Initial state: the analyser as constructed, start_analysing entered    *)
(* ---------------------------------------------------------------------- *)

\* Python values as the constructor's checks see them: the type, the length
\* of a string or container (the number itself for an int) and, for a
\* container, the type of its items
PyNone == [type |-> "NoneType", size |-> 0, of |-> "none"]
PyStr(n) == [type |-> "str", size |-> n, of |-> "none"]
PyInt(n) == [type |-> "int", size |-> n, of |-> "none"]
PyList(n, t) == [type |-> "list", size |-> n, of |-> t]
PyTuple(n, t) == [type |-> "tuple", size |-> n, of |-> t]

\* bool(v): None, 0 and empty strings and containers are false
Truthy(v) == v.type # "NoneType" /\ v.size > 0

\* isinstance(storage, Storage); LocalStorage is a Storage (lines 138-139)
IsStorage(cls) == cls \in {"Storage", "LocalStorage"}

\* values of the module argument: "anB", "", 42, None
ModuleArgs == { PyStr(3), PyStr(0), PyInt(42), PyNone }

\* classes of the storage argument (None is the default, line 30)
StorageArgs == { "Storage", "LocalStorage", "NoneType" }

\* config without elements_in, and with elements_in being None, [], 0,
\* "selA", ("selA",), ["selA"], ["selA", "selB"], [42]
ConfigArgs ==
    { [has |-> FALSE, elements_in |-> PyNone] } \cup
    { [has |-> TRUE, elements_in |-> v] :
        v \in { PyNone, PyList(0, "none"), PyInt(0), PyStr(4), PyTuple(1, "str"),
                PyList(1, "str"), PyList(2, "str"), PyList(1, "int") } }

\* analyser.py:33-46: the checks of __init__, in order; the result names the
\* InvalidAnalyserConfigError raised, "ok" when none is
CtorCheck(module, storage, cfg) ==
    IF module.type # "str" \/ module.size = 0 THEN "config name"
    ELSE IF ~IsStorage(storage) THEN "config storage"
    ELSE IF ~cfg.has THEN "config missing"
    ELSE IF ~Truthy(cfg.elements_in) \/ cfg.elements_in.type # "list"
         THEN "config elements_in"
    ELSE "ok"

\* the state after a construction that raised nothing
Init ==
    /\ in_parallel \in BOOLEAN
    /\ is_dev \in BOOLEAN
    /\ elements_in \in ElementsInChoices
    /\ arg_module = PyStr(3)
    /\ arg_storage = "Storage"
    /\ arg_config = [has |-> TRUE, elements_in |-> PyList(Len(elements_in), "str")]
    /\ delete_local_on_write \in BOOLEAN
    /\ phase = "pre"
    /\ abort = "none"
    /\ query = <<>>
    /\ status = <<>>
    /\ attempts = <<>>
    /\ dest_q = <<>>
    /\ errored = FALSE
    /\ stored = {}
    /\ metas = <<>>
    /\ post_els = {}
    /\ post_writes = <<>>
    /\ exhausted = {}
    /\ watched = 0
    /\ calls = 0
    /\ raised = 0
    /\ wcalls = 0
    /\ wfalse = 0
    /\ wok = 0
    /\ last = "nothing"

(* ---------------------------------------------------------------------- *)
(* start_analysing, line 82: the pre phase                                *)
(* ---------------------------------------------------------------------- *)

PreAnalyse ==
    /\ phase = "pre"
    /\ \E ok \in BOOLEAN :
          /\ phase' = IF ok THEN "read" ELSE "aborted"
          /\ abort' = IF ok THEN abort ELSE "pre"
    /\ UNCHANGED << config, query, status, attempts, dest_q, errored,
                    delete_local_on_write, stored, metas, post_els, post_writes, history >>

(* ---------------------------------------------------------------------- *)
(* __analyse, lines 102-118: read the input elements and dispatch         *)
(* ---------------------------------------------------------------------- *)

\* variant: the check of lines 111-112 left out
NeverEmpty(elements) == FALSE

\* analyser.py:111  len(elements) == 0
NoElements(elements) == Len(elements) = 0

\* Storage.read_elements(queries): the elements of each query, in the order of
\* the queries; qs[e] = elements_in[ix[e]] for a non-decreasing ix
Readable ==
    { [e \in DOMAIN ix |-> elements_in[ix[e]]] :
        ix \in { f \in UNION { [1..n -> DOMAIN elements_in] : n \in 0..MaxElems } :
                    \A a, b \in DOMAIN f : a < b => f[a] <= f[b] } }

ReadElements ==
    /\ phase = "read"
    /\ \/ \* lines 103-109: read_elements raises, InvalidAnalyserElements
          /\ phase' = "aborted"
          /\ abort' = "input unreadable"
          /\ UNCHANGED << query, status, attempts, history >>
       \/ \* lines 111-112: no element, InvalidAnalyserElements
          \E qs \in Readable :
          /\ NoElements(qs)
          /\ phase' = "aborted"
          /\ abort' = "input empty"
          /\ UNCHANGED << query, status, attempts, history >>
       \/ \* lines 114-118: the elements are handed to analyse
          \E qs \in Readable :
          /\ ~NoElements(qs)
          /\ query' = qs
          /\ status' = [e \in DOMAIN qs |-> "pending"]
          /\ attempts' = [e \in DOMAIN qs |-> 0]
          /\ watched' \in (IF qs = <<>> THEN {0} ELSE DOMAIN qs)
          /\ phase' = "main"
          /\ UNCHANGED << abort, exhausted, counts >>
    /\ UNCHANGED << config, dest_q, errored, delete_local_on_write, stored,
                    metas, post_els, post_writes >>

(* ---------------------------------------------------------------------- *)
(* analyse, lines 137-144, and __attempt_analyse, lines 176-201           *)
(* ---------------------------------------------------------------------- *)

\* line 137 over a list: the loop reaches e once the elements before it are done
InOrder(e) == \A j \in Elems : j < e => status[j] = "done"

\* the worker pool: a free worker may take any element not yet taken
PoolTakes(e) == TRUE

\* lines 114-118: a generator is dispatched to the pool, a list is walked in order
\* variant: the loop of line 137 takes no element
NeverStarts(e) == FALSE

MayStart(e) ==
    /\ status[e] = "pending"
    /\ IF in_parallel THEN PoolTakes(e) ELSE InOrder(e)

\* lines 140-143: set dest_q for this element and enter __attempt_analyse(5, element)
StartElement(e) ==
    /\ phase = "main"
    /\ MayStart(e)
    /\ dest_q' = DestQ(query[e])
    /\ status' = [status EXCEPT ![e] = "attempt"]
    /\ attempts' = [attempts EXCEPT ![e] = MaxAttempts]
    /\ UNCHANGED << config, phase, abort, query, errored, delete_local_on_write,
                    stored, metas, post_els, post_writes, history >>

\* analyser.py:144  self.disk.delete_local_on_write = False
FlagAfterElement(flag) == FALSE

\* the end of one attempt for e: lines 185-201, and line 144 when analyse goes on;
\* the frame of __attempt_analyse is gone once the element is done
Settle(e, v) ==
    /\ status' = [status EXCEPT ![e] =
                    CASE v = "again" -> "attempt"
                      [] v = "raise" -> "raised"
                      [] OTHER       -> "done"]
    /\ attempts' = [attempts EXCEPT ![e] =
                    CASE v = "again" -> @ - 1
                      [] v = "raise" -> @
                      [] OTHER       -> 0]
    /\ errored' = (errored \/ v = "exhausted")
    /\ exhausted' = IF v = "exhausted" THEN exhausted \cup {e} ELSE exhausted
    /\ phase' = IF v = "raise" THEN "aborted" ELSE phase
    /\ abort' = IF v = "raise" THEN "element" ELSE abort
    /\ delete_local_on_write' =
          IF v \in {"again", "raise"} THEN delete_local_on_write
          ELSE FlagAfterElement(delete_local_on_write)

\* line 178: one invocation of analyse_element, and what it returns or raises
AnalyseElement(e) ==
    /\ phase = "main"
    /\ status[e] = "attempt"
    /\ \E outcome \in {"element", "none", "skip", "retry", "exc"} :
          /\ IF e = watched
             THEN /\ calls' = calls + 1
                  /\ raised' = IF outcome = "retry" THEN raised + 1 ELSE raised
                  /\ last' = outcome
             ELSE UNCHANGED << calls, raised, last >>
          /\ IF Handler(outcome) = "continue"
             THEN /\ status' = [status EXCEPT ![e] = "write"]
                  /\ UNCHANGED << attempts, errored, exhausted, phase, abort,
                                  delete_local_on_write >>
             ELSE Settle(e, Verdict(Handler(outcome), attempts[e], is_dev))
    /\ UNCHANGED << config, query, dest_q, stored, metas, post_els, post_writes, watched,
                    wcalls, wfalse, wok >>

\* the name under which the result of a write_element call is recorded
WriteTag(result) ==
    CASE result = "true"  -> "write true"
      [] result = "false" -> "write false"
      [] OTHER            -> "write exc"

\* lines 181-183: write_element(self.get_dest_q(), new_element)
WriteElement(e) ==
    /\ phase = "main"
    /\ status[e] = "write"
    /\ \E result \in {"true", "false", "exc"} :
          /\ IF e = watched
             THEN /\ wcalls' = wcalls + 1
                  /\ wok' = IF result = "true" THEN wok + 1 ELSE wok
                  /\ wfalse' = IF result = "false" THEN wfalse + 1 ELSE wfalse
                  /\ last' = WriteTag(result)
             ELSE UNCHANGED << wcalls, wok, wfalse, last >>
          /\ stored' = IF result = "true" THEN stored \cup { <<dest_q, e>> } ELSE stored
          /\ Settle(e, Verdict(WriteVerdict(result), attempts[e], is_dev))
    /\ UNCHANGED << config, query, dest_q, metas, post_els, post_writes, watched, calls, raised >>

\* variant: analyse returns as soon as one element is done
SomeFinished == \E e \in Elems : status[e] = "done"

\* lines 83-84: __analyse has returned, every element having been attempted
MainFinished == \A e \in Elems : status[e] = "done"

(* ---------------------------------------------------------------------- *)
(* __post_analyse, lines 153-174                                          *)
(* ---------------------------------------------------------------------- *)

\* Storage.read_elements([q]): the elements stored under q
ElementsAt(q) == { p[2] : p \in { s \in stored : s[1] = q } }

\* lines 166-169: the destinations of the aggregate element, one per query of elements_in
PostDests == { DestQ(elements_in[i]) : i \in DOMAIN elements_in }

\* variant: "any" in place of "all"
AnySucceeded(successes) == \E i \in DOMAIN successes : successes[i]

\* line 171: all(successes)
AllSucceeded(successes) == \A i \in DOMAIN successes : successes[i]

PostAnalyse ==
    /\ phase = "main"
    /\ MainFinished
    /\ \/ \* line 156: read_elements raises
          /\ phase' = "aborted"
          /\ abort' = "post read"
          /\ UNCHANGED << stored, post_els, post_writes >>
       \/ \* line 157-159: post_analyse returns None
          /\ post_els' = ElementsAt(dest_q)
          /\ phase' = "meta"
          /\ UNCHANGED << stored, abort, post_writes >>
       \/ \* lines 161-174: post_analyse returns an element, written once per query
          \E successes \in [DOMAIN elements_in -> BOOLEAN] :
             /\ post_els' = ElementsAt(dest_q)
             /\ post_writes' = [i \in DOMAIN elements_in |->
                                  [dest |-> DestQ(elements_in[i]), ok |-> successes[i]]]
             /\ stored' = stored \cup { << DestQ(elements_in[i]), AggElement >> :
                                          i \in { j \in DOMAIN elements_in : successes[j] } }
             /\ phase' = IF AllSucceeded(successes) THEN "meta" ELSE "aborted"
             /\ abort' = IF AllSucceeded(successes) THEN abort ELSE "post write"
    /\ UNCHANGED << config, query, status, attempts, dest_q, errored,
                    delete_local_on_write, metas, history >>

(* ---------------------------------------------------------------------- *)
(* start_analysing, lines 85-95: the metadata record                      *)
(* ---------------------------------------------------------------------- *)

WriteMeta ==
    /\ phase = "meta"
    /\ metas' = IF ShouldWriteMeta(errored) THEN Append(metas, MetaPath) ELSE metas
    /\ phase' = "done"
    /\ UNCHANGED << config, abort, query, status, attempts, dest_q, errored,
                    delete_local_on_write, stored, post_els, post_writes, history >>

Next ==
    \/ PreAnalyse
    \/ ReadElements
    \/ \E e \in Elems : StartElement(e)
    \/ \E e \in Elems : AnalyseElement(e)
    \/ \E e \in Elems : WriteElement(e)
    \/ PostAnalyse
    \/ WriteMeta

Spec == Init /\ [][Next]_vars

(* ---------------------------------------------------------------------- *)
(* Vocabulary of the properties                                           *)
(* ---------------------------------------------------------------------- *)

\* the watched element exists (the input has been read)
Watching == watched \in Elems

\* the pairs write_element committed for the watched element
StoredOfWatched == { p \in stored : p[2] = watched }

\* the pairs committed in the main phase, for input elements
MainStored == { p \in stored : p[2] # AggElement }

\* "<selector name of the element's own query>/<stage name>"
OwnDest(e) == << Head(query[e]), StageName >>

\* the elements analyse has begun to process
Started == { e \in Elems : status[e] # "pending" }

\* __post_analyse has been entered
PostStarted == phase \in {"meta", "done"} \/ abort \in {"post read", "post write"}

\* what a serial run stores for the elements whose write was accepted
SerialStored == { << OwnDest(p[2]), p[2] >> : p \in MainStored }

\* a serial run stores every accepted element under its own destination and
\* ends errored exactly when some element exhausted its attempts
SerialRunResult ==
    ~in_parallel => /\ MainStored = SerialStored
                    /\ errored = (exhausted # {})

(* ---------------------------------------------------------------------- *)
(* C1                                                                     *)
(* ---------------------------------------------------------------------- *)

\* C1: an element whose every attempt ended in a retryable failure
\* (analyse_element raised ElementShouldRetryError, or write_element returned
\* false) has had analyse_element invoked exactly 5 times, has nothing
\* committed to storage, and has left the errored flag true.
C1_ExhaustsAfterFiveAttempts ==
    (Watching /\ status[watched] = "done" /\ calls > 0 /\ raised + wfalse = calls)
        => /\ calls = 5
           /\ StoredOfWatched = {}
           /\ errored
           /\ watched \in exhausted

C1_Witness ==
    /\ Watching
    /\ status[watched] = "done"
    /\ raised + wfalse = calls
    /\ raised > 0
    /\ wfalse > 0
    /\ errored

(* ---------------------------------------------------------------------- *)
(* C2                                                                     *)
(* ---------------------------------------------------------------------- *)

\* C2: an element whose analyse_element raised ElementShouldRetryError k < 5
\* times and then returned an element that write_element accepted is done
\* right after that write (no further attempt), after k + 1 invocations and
\* one write_element call, is stored exactly once, and did not set errored.
C2_RetriedThenWrittenOnce ==
    (Watching /\ last = "write true" /\ wfalse = 0)
        => /\ status[watched] = "done"
           /\ raised < 5
           /\ calls = raised + 1
           /\ wcalls = 1
           /\ wok = 1
           /\ Cardinality(StoredOfWatched) = 1
           /\ watched \notin exhausted

C2_Witness ==
    /\ Watching
    /\ last = "write true"
    /\ wfalse = 0
    /\ raised = 4
    /\ status[watched] = "done"
    /\ ~errored

(* ---------------------------------------------------------------------- *)
(* C3                                                                     *)
(* ---------------------------------------------------------------------- *)

\* C3: when analyse_element raises ElementShouldSkipError or returns None, the
\* element is done on that attempt: it is not retried, write_element is not
\* called for that attempt (every earlier write call returned false), nothing
\* is stored for it and it did not set errored.
C3_SkipOrNoneIsTerminal ==
    (Watching /\ last \in {"skip", "none"})
        => /\ status[watched] = "done"
           /\ calls = raised + wfalse + 1
           /\ wcalls = wfalse
           /\ wok = 0
           /\ StoredOfWatched = {}
           /\ watched \notin exhausted

C3_Witness ==
    /\ Watching
    /\ last = "skip"
    /\ calls > 1
    /\ status[watched] = "done"
    /\ phase = "done"

(* ---------------------------------------------------------------------- *)
(* C4                                                                     *)
(* ---------------------------------------------------------------------- *)

\* C4: write_meta is called at most once, only by a run that went through the
\* post phase with errored false; a run in which an element exhausted its
\* attempts, or which aborted with an exception, has no metadata record.
C4_MetaOnlyOnSuccess ==
    /\ Len(metas) <= 1
    /\ metas # <<>> => (phase = "done" /\ abort = "none" /\ ~errored)
    /\ (exhausted # {} \/ phase = "aborted") => metas = <<>>

C4_Witness ==
    /\ phase = "done"
    /\ exhausted # {}
    /\ metas = <<>>
    /\ stored # {}

(* ---------------------------------------------------------------------- *)
(* C5                                                                     *)
(* ---------------------------------------------------------------------- *)

\* C5 as stated: no metadata record if the input was unreadable, exactly one
\* for every other run that ends, also when some elements ended Failed.
C5_MetaAlsoOnPartialSuccess ==
    /\ abort = "input unreadable" => metas = <<>>
    /\ phase = "done" => Len(metas) = 1

\* C5 as amended: a run that aborted (unreadable or empty input, an exception)
\* has no metadata record; a run that reaches its end has exactly one when no
\* element exhausted its attempts, also when elements ended Failed through an
\* unclassified exception in production mode, and none when one did.
C5_MetaUnlessExhausted ==
    /\ phase = "aborted" => metas = <<>>
    /\ phase = "done" => Len(metas) = (IF exhausted = {} THEN 1 ELSE 0)

C5_Witness ==
    /\ phase = "done"
    /\ Len(metas) = 1
    /\ ~is_dev
    /\ Watching
    /\ last \in {"exc", "write exc"}

(* ---------------------------------------------------------------------- *)
(* C6                                                                     *)
(* ---------------------------------------------------------------------- *)

\* C6: until pre_analyse has completed no input is read and no element is
\* analysed or written; once post_analyse has started every element is done,
\* no __attempt_analyse is running; in serial and in parallel mode.
C6_PhasesInOrder ==
    /\ phase = "pre" => (query = <<>> /\ calls = 0 /\ wcalls = 0 /\ stored = {})
    /\ PostStarted => \A e \in Elems : status[e] = "done" /\ attempts[e] = 0

C6_Witness ==
    /\ PostStarted
    /\ in_parallel
    /\ Len(query) > 1
    /\ calls > 1
    /\ MainStored # {}

(* ---------------------------------------------------------------------- *)
(* C7                                                                     *)
(* ---------------------------------------------------------------------- *)

\* C7: a parallel run ends with the pairs (destination, element) and the
\* errored flag of the serial run over the same inputs and outcomes.
C7_ParallelSameAsSerial ==
    (in_parallel /\ phase \in {"meta", "done"})
        => /\ MainStored = SerialStored
           /\ errored = (exhausted # {})

(* ---------------------------------------------------------------------- *)
(* C8                                                                     *)
(* ---------------------------------------------------------------------- *)

\* C8: every element written in the main phase is stored under
\* "<selector name of its own query>/<stage name>".
C8_WritesUseOwnDest ==
    \A p \in MainStored : p[1] = OwnDest(p[2])

(* ---------------------------------------------------------------------- *)
(* C9                                                                     *)
(* ---------------------------------------------------------------------- *)

C10_NoElementErrorEscapes ==
    ~is_dev => /\ abort # "element"
               /\ PostStarted => /\ calls >= 1
                                 /\ \A e \in Elems : status[e] = "done"

C10_Witness ==
    /\ ~is_dev
    /\ PostStarted
    /\ Len(query) > 1
    /\ last \in {"exc", "write exc"}
    /\ exhausted # {}

(* ---------------------------------------------------------------------- *)
(* C11                                                                    *)
(* ---------------------------------------------------------------------- *)

\* C11: when read_elements raised or returned no element, start_analysing has
\* ended with InvalidAnalyserElements before any dispatch: analyse_element
\* and write_element were never called, post_analyse did not run and no
\* metadata record was written.
C11_NoInputAbortsBeforeDispatch ==
    (phase \notin {"pre", "read"} /\ abort # "pre" /\ query = <<>>)
        => /\ phase = "aborted"
           /\ abort \in {"input unreadable", "input empty"}
           /\ Started = {}
           /\ calls = 0
           /\ wcalls = 0
           /\ stored = {}
           /\ post_els = {}
           /\ ~PostStarted
           /\ metas = <<>>

C11_Witness ==
    /\ phase = "aborted"
    /\ abort = "input empty"
    /\ query = <<>>
    /\ metas = <<>>

(* ---------------------------------------------------------------------- *)
(* C12                                                                    *)
(* ---------------------------------------------------------------------- *)

\* the aggregate element is stored under d
AggStoredAt(d) == << d, AggElement >> \in stored

\* C12: when post_analyse returned an element, write_element was called for
\* it once per query of elements_in, under "<selector name>/<stage name>" of
\* that query; if one of these calls returned false the run has ended with
\* ElementShouldRetryError and without a metadata record; when post_analyse
\* returned None the post phase has written nothing.
C12_PostWritesPerQuery ==
    /\ post_writes # <<>> =>
          /\ PostStarted
          /\ Len(post_writes) = Len(elements_in)
          /\ \A i \in DOMAIN post_writes :
                /\ post_writes[i].dest = << Head(elements_in[i]), StageName >>
                /\ post_writes[i].ok => AggStoredAt(post_writes[i].dest)
    /\ (\E i \in DOMAIN post_writes : ~post_writes[i].ok) =>
          (phase = "aborted" /\ abort = "post write" /\ metas = <<>>)
    /\ post_writes = <<>> => \A p \in stored : p[2] # AggElement

C12_Witness ==
    /\ Len(post_writes) = 2
    /\ post_writes[1].ok
    /\ ~post_writes[2].ok
    /\ abort = "post write"
    /\ metas = <<>>

\* Every call of the run returns or raises (analyse_element, pre_analyse,
\* post_analyse, the storage): a run that can take a step takes one.
FairSpec == Spec /\ WF_vars(Next)

(* ---------------------------------------------------------------------- *)
(* C13                                                                    *)
(* ---------------------------------------------------------------------- *)

\* C13: delete_local_on_write is false while the last element of a serial
\* run is at its write_element call, and a run that has ended has put the
\* flag back to the value it had before the run.
C13_FlagRestored ==
    /\ []((~in_parallel /\ Elems # {} /\ status[Len(query)] = "write")
             => ~delete_local_on_write)
    /\ \A before \in BOOLEAN :
          (delete_local_on_write = before)
             => [](phase = "done" => delete_local_on_write = before)

(* ---------------------------------------------------------------------- *)
(* Construction: Analyser.__init__ applied to arbitrary arguments         *)
(* ---------------------------------------------------------------------- *)

\* before __init__ is called: any arguments, nothing stored
InitCtor ==
    /\ arg_module \in ModuleArgs
    /\ arg_storage \in StorageArgs
    /\ arg_config \in ConfigArgs
    /\ phase = "new"
    /\ in_parallel = FALSE
    /\ is_dev = FALSE
    /\ elements_in = <<>>
    /\ delete_local_on_write = FALSE
    /\ abort = "none"
    /\ query = <<>>
    /\ status = <<>>
    /\ attempts = <<>>
    /\ dest_q = <<>>
    /\ errored = FALSE
    /\ stored = {}
    /\ metas = <<>>
    /\ post_els = {}
    /\ post_writes = <<>>
    /\ exhausted = {}
    /\ watched = 0
    /\ calls = 0
    /\ raised = 0
    /\ wcalls = 0
    /\ wfalse = 0
    /\ wok = 0
    /\ last = "nothing"

\* analyser.py:30-46: __init__ returns, or raises InvalidAnalyserConfigError
Construct ==
    /\ phase = "new"
    /\ LET r == CtorCheck(arg_module, arg_storage, arg_config) IN
          /\ phase' = IF r = "ok" THEN "pre" ELSE "aborted"
          /\ abort' = IF r = "ok" THEN "none" ELSE r
    /\ UNCHANGED << config, query, status, attempts, dest_q, errored,
                    delete_local_on_write, stored, metas, post_els, post_writes,
                    history >>

SpecCtor == InitCtor /\ [][Construct]_vars

(* ---------------------------------------------------------------------- *)
(* C14                                                                    *)
(* ---------------------------------------------------------------------- *)

\* the arguments C14 calls valid: a non-empty string as name, a Storage, and
\* an elements_in that is a non-empty list of strings
ValidArgs ==
    /\ arg_module.type = "str" /\ arg_module.size > 0
    /\ IsStorage(arg_storage)
    /\ arg_config.has
    /\ arg_config.elements_in.type = "list"
    /\ arg_config.elements_in.size > 0
    /\ arg_config.elements_in.of = "str"

\* C14: whenever the name is empty or no string, the storage is no Storage,
\* or elements_in is missing, empty or not a list of query strings, the
\* constructor raises a configuration error and nothing is read from or
\* written to the storage.
C14_CtorRejectsInvalid ==
    (phase # "new" /\ ~ValidArgs) =>
        /\ phase = "aborted"
        /\ abort \in {"config name", "config storage", "config missing",
                      "config elements_in"}
        /\ stored = {}
        /\ metas = <<>>

(* ---------------------------------------------------------------------- *)
(* C15                                                                    *)
(* ---------------------------------------------------------------------- *)

\* what is left to do for element e: two steps per attempt still allowed
\* (the analyse_element call and the write_element call)
ElemRank(e) ==
    CASE status[e] = "pending" -> 2 * MaxAttempts + 2
      [] status[e] = "attempt" -> 2 * attempts[e]
      [] status[e] = "write"   -> 2 * attempts[e] - 1
      [] OTHER                 -> 0

RECURSIVE SumRank(_)
SumRank(n) == IF n = 0 THEN 0 ELSE ElemRank(n) + SumRank(n - 1)

\* what is left to do for the run: a natural number that no step may keep
PhaseRank ==
    CASE phase = "pre"  -> 4 + MaxElems * (2 * MaxAttempts + 2)
      [] phase = "read" -> 3 + MaxElems * (2 * MaxAttempts + 2)
      [] phase = "main" -> 2
      [] phase = "meta" -> 1
      [] OTHER          -> 0

Measure == PhaseRank + SumRank(Len(query))

Terminated == phase \in {"done", "aborted"}

\* C15: every call returning or raising, a run of start_analysing ends: each
\* step of the run lowers a natural-number measure, a run that has not ended
\* can always take a step, and analyse_element is never invoked more than 5
\* times for one element, whatever the outcomes of the calls.
C15_TerminatesWithinFiveCalls ==
    /\ [][Measure' < Measure]_vars
    /\ [](/\ Measure \in Nat
          /\ calls <= MaxAttempts
          /\ wcalls <= calls
          /\ ~Terminated => ENABLED Next
          /\ Terminated => ~ENABLED Next)

C15_Witness ==
    /\ Watching
    /\ phase = "done"
    /\ calls = MaxAttempts
    /\ raised > 0
    /\ wfalse > 0
    /\ last = "exc"
    /\ \E e \in Elems : e # watched /\ e \in exhausted

(* ---------------------------------------------------------------------- *)
(* C16                                                                    *)
(* ---------------------------------------------------------------------- *)

WatchedRaisedOther == Watching /\ last \in {"exc", "write exc"}

\* C17: in development mode an unclassified exception of analyse_element or
\* write_element ends the run at once: the element is not retried, in a
\* serial run no later element is started, post_analyse is not called and no
\* metadata is written. In production mode the exception is swallowed: the
\* element is done without counting as exhausted and the run goes on with
\* the next element or, after the last one, with the post phase.
C17_DevAbortsProdContinues ==
    /\ (WatchedRaisedOther /\ is_dev) =>
          /\ phase = "aborted"
          /\ abort = "element"
          /\ status[watched] = "raised"
          /\ ~PostStarted
          /\ post_els = {}
          /\ post_writes = <<>>
          /\ metas = <<>>
          /\ ~in_parallel =>
                \A e \in Elems : e > watched => status[e] = "pending"
    /\ (WatchedRaisedOther /\ ~is_dev) =>
          /\ status[watched] = "done"
          /\ abort # "element"
          /\ watched \notin exhausted
          /\ (~in_parallel /\ phase = "main" /\ watched < Len(query)
                /\ status[watched + 1] = "pending")
                => ENABLED StartElement(watched + 1)
          /\ (phase = "main" /\ \A e \in Elems : status[e] = "done")
                => ENABLED PostAnalyse

C17_Witness ==
    /\ ~in_parallel
    /\ is_dev
    /\ WatchedRaisedOther
    /\ phase = "aborted"
    /\ watched = 1
    /\ Len(query) = 2
    /\ status[2] = "pending"
    /\ wcalls > 0

(* ---------------------------------------------------------------------- *)
(* C18                                                                    *)
(* ---------------------------------------------------------------------- *)

\* the destinations under which the run has written elements
WrittenDests == { p[1] : p \in stored }

\* C18: the path given to write_meta is a destination query under which the
\* run wrote its output elements, "<selector name>/<stage name>", also when
\* elements_in names several queries.
C18_MetaAtOutputDest ==
    \A i \in DOMAIN metas :
        /\ MainStored # {} => metas[i] \in WrittenDests
        /\ \E j \in DOMAIN elements_in :
              metas[i] = << Head(elements_in[j]), StageName >>

(* ---------------------------------------------------------------------- *)
(* C19                                                                    *)
(* ---------------------------------------------------------------------- *)

\* C19: the elements handed to post_analyse are exactly the elements the
\* main phase of the run has written, under whichever destination.
C19_PostGetsMainOutput ==
    (PostStarted /\ abort # "post read") =>
        post_els = { p[2] : p \in MainStored }

(* ---------------------------------------------------------------------- *)
(* C20: runs over chained queries                                         *)
(* ---------------------------------------------------------------------- *)

\* the query "selA/anB": the output of stage anB for selector selA
QChain == << <<"selA">>, <<"anB">> >>

\* values of config["elements_in"] that name a chained query
ChainChoices == { <<QChain>>, <<QSelA, QChain>> }

\* the state after construction with such a configuration
InitChain ==
    /\ in_parallel \in BOOLEAN
    /\ is_dev \in BOOLEAN
    /\ elements_in \in ChainChoices
    /\ arg_module = PyStr(3)
    /\ arg_storage = "Storage"
    /\ arg_config = [has |-> TRUE, elements_in |-> PyList(Len(elements_in), "str")]
    /\ delete_local_on_write \in BOOLEAN
    /\ phase = "pre"
    /\ abort = "none"
    /\ query = <<>>
    /\ status = <<>>
    /\ attempts = <<>>
    /\ dest_q = <<>>
    /\ errored = FALSE
    /\ stored = {}
    /\ metas = <<>>
    /\ post_els = {}
    /\ post_writes = <<>>
    /\ exhausted = {}
    /\ watched = 0
    /\ calls = 0
    /\ raised = 0
    /\ wcalls = 0
    /\ wfalse = 0
    /\ wok = 0
    /\ last = "nothing"

SpecChain == InitChain /\ [][Next]_vars

\* "<q>/<stage name>": the stage's own name appended to the query q
Appended(q) == q \o << StageName >>

\* C20: every write_element call of the run, of the main or the post phase,
\* goes to a location other than the query of any input element, formed by
\* appending the stage's name to an input query, chained queries included.
C20_WritesUnderNewLocation ==
    /\ \A p \in stored :
          /\ \A e \in Elems : p[1] # query[e]
          /\ \E i \in DOMAIN elements_in : p[1] = Appended(elements_in[i])
    /\ \A w \in DOMAIN post_writes :
          /\ \A i \in DOMAIN elements_in : post_writes[w].dest # elements_in[i]
          /\ \E i \in DOMAIN elements_in :
                post_writes[w].dest = Appended(elements_in[i])

====
